---- MODULE Spec2Model ----
(***************************************************************************)
(* PPoGATT (src/rcore/ppogatt.c): the interrupt callbacks, the receive and *)
(* transmit tasks, their two FreeRTOS queues and ppogatt_init, as a state  *)
(* machine.  One action per task step between two scheduling points, per   *)
(* interrupt callback and per statement group of ppogatt_init.             *)
(***************************************************************************)
EXTENDS Naturals, Sequences, FiniteSets

(* ------------------------------------------------------------------ *)
(* Program constants                                                   *)
(* ------------------------------------------------------------------ *)
PPOGATT_CMD_DATA == 0
PPOGATT_CMD_ACK == 1
PPOGATT_CMD_RESET_REQ == 2
PPOGATT_CMD_RESET_ACK == 3
PPOGATT_MTU == 256
PPOGATT_RX_QUEUE_SIZE == 4
PPOGATT_TX_QUEUE_SIZE == 4
\* data[7:0] = {seq[4:0], cmd[2:0]}
SeqSpace == 32
CmdSpace == 8

(* ------------------------------------------------------------------ *)
(* Bounds of the model                                                 *)
(* ------------------------------------------------------------------ *)
\* calls of _ppogatt_callback_rx the BLE stack makes between two resets
MaxInbound == 5
\* calls of bt_device_request_tx the upper layer makes
MaxSubmit == 1
\* calls of _ppogatt_callback_rx between two resets when the BLE stack
\* reports frames of any length
MaxPeerInbound == 3

(* ------------------------------------------------------------------ *)
(* Frames                                                              *)
(* ------------------------------------------------------------------ *)
Hdr(cmd, seq) == seq * CmdSpace + cmd
CmdOf(buf) == buf[1] % CmdSpace
SeqOf(buf) == (buf[1] \div CmdSpace) % SeqSpace

\* payload bytes the model draws from
PayloadBytes == {170}
\* the frames the peer sends in the model
InboundFrames ==
    { <<Hdr(PPOGATT_CMD_DATA, 1), p>> : p \in PayloadBytes }
    \cup { <<Hdr(PPOGATT_CMD_ACK, 1)>>, <<Hdr(PPOGATT_CMD_RESET_REQ, 0)>> }
\* a frame one byte longer than the staging buffer
OversizeFrame ==
    [i \in 1..(PPOGATT_MTU + 1) |-> IF i = 1 THEN Hdr(PPOGATT_CMD_DATA, 1) ELSE 0]
\* what the BLE stack may report, size_t len unchecked: an in-order DATA
\* frame (sent twice it is a duplicate), an empty frame, an oversize frame
PeerFrames ==
    { <<Hdr(PPOGATT_CMD_DATA, 0), p>> : p \in PayloadBytes }
    \cup { << >>, OversizeFrame }
\* what a read past the end of a packet buffer may find
StrayBytes == {0, 255}
\* the payloads the upper layer submits in the model
SubmitPayloads == { <<p>> : p \in PayloadBytes }

\* struct ppogatt_packet { uint32_t len; uint8_t buf[PPOGATT_MTU]; }:
\* buf holds the len bytes that were copied in
Packet(buf, len) == [len |-> len, buf |-> buf]
NoPacket == [len |-> 0, buf |-> << >>]

\* memcpy(_ppogatt_rx_msg.buf, buf, len); _ppogatt_rx_msg.len = len: the
\* staging buffer takes PPOGATT_MTU bytes, len is recorded as reported
StagedPacket(buf) ==
    Packet(IF Len(buf) <= PPOGATT_MTU THEN buf ELSE SubSeq(buf, 1, PPOGATT_MTU), Len(buf))

\* the bytes ble_ppogatt_tx(pkt.buf, pkt.len) reads: those of the buffer,
\* and past its end whatever lies there
ble_ppogatt_tx_reads(pkt) ==
    IF pkt.len <= Len(pkt.buf)
       THEN { pkt.buf }
       ELSE { pkt.buf \o stray : stray \in [1..(pkt.len - Len(pkt.buf)) -> StrayBytes] }

VARIABLES
    _task_ppogatt_rx,      \* TaskHandle_t: 0, or 1 for &_task_ppogatt_rx_tcb
    _task_ppogatt_tx,      \* TaskHandle_t: 0, or 1 for &_task_ppogatt_tx_tcb
    _queue_ppogatt_rx,     \* QueueHandle_t: 0, or 1 for &_queue_ppogatt_rx_qcb
    _queue_ppogatt_tx,     \* QueueHandle_t: 0, or 1 for &_queue_ppogatt_tx_qcb
    _queue_ppogatt_rx_buf, \* the items held by the receive queue, oldest first
    _queue_ppogatt_tx_buf, \* the items held by the transmit queue, oldest first
    _ppogatt_rx_msg,       \* the static staging packet of _ppogatt_callback_rx
    rx_pc,                 \* receive task: "none" (no task), "recv", "send"
    rx_pkt,                \* _ppogatt_rx_main's local pkt
    tx_pc,                 \* transmit task: "none", "recv", "try", "wait"
    tx_pkt,                \* _ppogatt_tx_main's local pkt
    tx_notify,             \* the transmit task's notification value: 0, or 1 for any non-zero count
    cb_rx,                 \* ble_ppogatt_set_callback_rx was given _ppogatt_callback_rx
    cb_txready,            \* ble_ppogatt_set_callback_txready was given _ppogatt_callback_txready
    init_pc,               \* the caller's position in ppogatt_init, "idle" outside
    fault,                 \* an interrupt callback used a null or deleted handle and the system stopped
    wire,                  \* the frames ble_ppogatt_tx accepted since the tasks were last deleted, in order
    lastlog,               \* what the last step logged with DRV_LOG: "none", "rx_info", "tx_warn"
    submitted,             \* the payloads bt_device_request_tx was called with, in order
    delivered,             \* the payloads handed to the upper layer, in order
    rx_seen,               \* the frames _ppogatt_rx_main dequeued since the tasks were last deleted
    rx_calls               \* calls of _ppogatt_callback_rx since the tasks were last deleted

vars == << _task_ppogatt_rx, _task_ppogatt_tx, _queue_ppogatt_rx, _queue_ppogatt_tx,
           _queue_ppogatt_rx_buf, _queue_ppogatt_tx_buf, _ppogatt_rx_msg,
           rx_pc, rx_pkt, tx_pc, tx_pkt, tx_notify, cb_rx, cb_txready, init_pc,
           fault, wire, lastlog, submitted, delivered, rx_seen, rx_calls >>

\* the variables owned by each part, for UNCHANGED
handleVars == << _task_ppogatt_rx, _task_ppogatt_tx, _queue_ppogatt_rx, _queue_ppogatt_tx >>
rxTaskVars == << rx_pc, rx_pkt >>
txTaskVars == << tx_pc, tx_pkt, tx_notify >>
cbVars == << cb_rx, cb_txready >>
upperVars == << submitted, delivered >>

\* static initialisers: every handle 0, no task, no callback registered
Init ==
    /\ _task_ppogatt_rx = 0
    /\ _task_ppogatt_tx = 0
    /\ _queue_ppogatt_rx = 0
    /\ _queue_ppogatt_tx = 0
    /\ _queue_ppogatt_rx_buf = << >>
    /\ _queue_ppogatt_tx_buf = << >>
    /\ _ppogatt_rx_msg = NoPacket
    /\ rx_pc = "none"
    /\ rx_pkt = NoPacket
    /\ tx_pc = "none"
    /\ tx_pkt = NoPacket
    /\ tx_notify = 0
    /\ cb_rx = FALSE
    /\ cb_txready = FALSE
    /\ init_pc = "idle"
    /\ fault = FALSE
    /\ wire = << >>
    /\ lastlog = "none"
    /\ submitted = << >>
    /\ delivered = << >>
    /\ rx_seen = << >>
    /\ rx_calls = 0

(* ------------------------------------------------------------------ *)
(* FreeRTOS queue primitives as the code calls them                    *)
(* ------------------------------------------------------------------ *)
\* (mutant) a full queue gives up its oldest item to take the new one
xQueueSendFromISR_overwrite(q, item, size) ==
    IF Len(q) < size THEN Append(q, item) ELSE Append(Tail(q), item)

\* xQueueSendFromISR: never waits; a full queue is left as it is
xQueueSendFromISR(q, item, size) ==
    IF Len(q) < size THEN Append(q, item) ELSE q

\* (mutant) the room test is off by one
xQueueSendToBack_ready_offbyone(q, size) == Len(q) <= size

\* xQueueSendToBack(..., portMAX_DELAY) returns only once there is room
xQueueSendToBack_ready(q, size) == Len(q) < size

\* xQueueReceive(..., portMAX_DELAY) returns only once there is an item
xQueueReceive_ready(q) == Len(q) > 0

(* ------------------------------------------------------------------ *)
(* Interrupt callbacks                                                 *)
(* ------------------------------------------------------------------ *)
\* _ppogatt_callback_rx(buf, len): copy into the staging packet, one
\* non-blocking enqueue, return value ignored, nothing logged.  A null
\* queue handle (ppogatt_init is between deleting and creating the queue)
\* is undefined behaviour, and so is a memcpy of more than PPOGATT_MTU bytes
\* (len is not checked): the build either stops or carries on.
_ppogatt_callback_rx_from(frames, maxcalls) ==
    /\ ~fault
    /\ cb_rx
    /\ rx_calls < maxcalls
    /\ \E buf \in frames :
          /\ _ppogatt_rx_msg' = StagedPacket(buf)
          /\ IF _queue_ppogatt_rx # 0
                THEN /\ _queue_ppogatt_rx_buf' =
                          xQueueSendFromISR(_queue_ppogatt_rx_buf, _ppogatt_rx_msg',
                                            PPOGATT_RX_QUEUE_SIZE)
                     /\ IF Len(buf) <= PPOGATT_MTU
                           THEN fault' = FALSE
                           ELSE fault' \in BOOLEAN
                ELSE /\ _queue_ppogatt_rx_buf' = _queue_ppogatt_rx_buf
                     /\ fault' \in BOOLEAN
    /\ rx_calls' = rx_calls + 1
    /\ lastlog' = "none"
    /\ UNCHANGED << handleVars, _queue_ppogatt_tx_buf, rxTaskVars, txTaskVars, cbVars,
                    init_pc, wire, upperVars, rx_seen >>

\* the callback as a peer drives it that keeps to two-byte frames
_ppogatt_callback_rx == _ppogatt_callback_rx_from(InboundFrames, MaxInbound)

\* the callback as the BLE stack may drive it: any length
_ppogatt_callback_rx_any == _ppogatt_callback_rx_from(PeerFrames, MaxPeerInbound)

\* _ppogatt_callback_txready(): vTaskNotifyGiveFromISR(_task_ppogatt_tx)
\* increments the notification value, of which the task only ever reads
\* whether it is zero.  A null handle or the handle of a deleted task is
\* undefined behaviour: the build either stops or carries on.
_ppogatt_callback_txready ==
    /\ ~fault
    /\ cb_txready
    /\ IF _task_ppogatt_tx # 0 /\ tx_pc # "none"
          THEN /\ tx_notify' = 1
               /\ fault' = FALSE
          ELSE /\ tx_notify' = tx_notify
               /\ fault' \in BOOLEAN
    /\ lastlog' = "none"
    /\ UNCHANGED << handleVars, _queue_ppogatt_rx_buf, _queue_ppogatt_tx_buf,
                    _ppogatt_rx_msg, rxTaskVars, tx_pc, tx_pkt, cbVars, init_pc,
                    wire, upperVars, rx_seen, rx_calls >>

(* ------------------------------------------------------------------ *)
(* Receive task: _ppogatt_rx_main                                      *)
(* ------------------------------------------------------------------ *)
\* xQueueReceive(_queue_ppogatt_rx, &pkt, portMAX_DELAY); DRV_LOG("RX %d bytes")
_ppogatt_rx_main_recv ==
    /\ ~fault
    /\ rx_pc = "recv"
    /\ _queue_ppogatt_rx # 0
    /\ xQueueReceive_ready(_queue_ppogatt_rx_buf)
    /\ rx_pkt' = Head(_queue_ppogatt_rx_buf)
    /\ _queue_ppogatt_rx_buf' = Tail(_queue_ppogatt_rx_buf)
    /\ rx_seen' = Append(rx_seen, rx_pkt'.buf)
    /\ lastlog' = "rx_info"
    /\ rx_pc' = "send"
    /\ UNCHANGED << handleVars, _queue_ppogatt_tx_buf, _ppogatt_rx_msg, txTaskVars,
                    cbVars, init_pc, fault, wire, upperVars, rx_calls >>

\* (mutant) the packet goes to the front of the transmit queue
_ppogatt_rx_main_send_front ==
    /\ ~fault
    /\ rx_pc = "send"
    /\ _queue_ppogatt_tx # 0
    /\ xQueueSendToBack_ready(_queue_ppogatt_tx_buf, PPOGATT_TX_QUEUE_SIZE)
    /\ _queue_ppogatt_tx_buf' = <<rx_pkt>> \o _queue_ppogatt_tx_buf
    /\ rx_pc' = "recv"
    /\ lastlog' = "none"
    /\ UNCHANGED << handleVars, _queue_ppogatt_rx_buf, _ppogatt_rx_msg, rx_pkt,
                    txTaskVars, cbVars, init_pc, fault, wire, upperVars, rx_seen,
                    rx_calls >>

\* xQueueSendToBack(_queue_ppogatt_tx, &pkt, portMAX_DELAY): "just echo it"
_ppogatt_rx_main_send ==
    /\ ~fault
    /\ rx_pc = "send"
    /\ _queue_ppogatt_tx # 0
    /\ xQueueSendToBack_ready(_queue_ppogatt_tx_buf, PPOGATT_TX_QUEUE_SIZE)
    /\ _queue_ppogatt_tx_buf' = Append(_queue_ppogatt_tx_buf, rx_pkt)
    /\ rx_pc' = "recv"
    /\ lastlog' = "none"
    /\ UNCHANGED << handleVars, _queue_ppogatt_rx_buf, _ppogatt_rx_msg, rx_pkt,
                    txTaskVars, cbVars, init_pc, fault, wire, upperVars, rx_seen,
                    rx_calls >>

(* ------------------------------------------------------------------ *)
(* Transmit task: _ppogatt_tx_main                                     *)
(* ------------------------------------------------------------------ *)
\* xQueueReceive(_queue_ppogatt_tx, &pkt, portMAX_DELAY)
_ppogatt_tx_main_recv ==
    /\ ~fault
    /\ tx_pc = "recv"
    /\ _queue_ppogatt_tx # 0
    /\ xQueueReceive_ready(_queue_ppogatt_tx_buf)
    /\ tx_pkt' = Head(_queue_ppogatt_tx_buf)
    /\ _queue_ppogatt_tx_buf' = Tail(_queue_ppogatt_tx_buf)
    /\ tx_pc' = "try"
    /\ lastlog' = "none"
    /\ UNCHANGED << handleVars, _queue_ppogatt_rx_buf, _ppogatt_rx_msg, rxTaskVars,
                    tx_notify, cbVars, init_pc, fault, wire, upperVars, rx_seen,
                    rx_calls >>

\* (mutant) a refused frame is given up: back to xQueueReceive
_ppogatt_tx_main_try_giveup ==
    /\ ~fault
    /\ tx_pc = "try"
    /\ \E accepted \in BOOLEAN :
          IF accepted
             THEN \E sent \in ble_ppogatt_tx_reads(tx_pkt) : wire' = Append(wire, sent)
             ELSE wire' = wire
    /\ tx_pc' = "recv"
    /\ lastlog' = "none"
    /\ UNCHANGED << handleVars, _queue_ppogatt_rx_buf, _queue_ppogatt_tx_buf,
                    _ppogatt_rx_msg, rxTaskVars, tx_pkt, tx_notify, cbVars, init_pc,
                    fault, upperVars, rx_seen, rx_calls >>

\* while (ble_ppogatt_tx(pkt.buf, pkt.len) < 0): the transport accepts the
\* frame (the loop ends, back to xQueueReceive) or refuses it (wait)
_ppogatt_tx_main_try ==
    /\ ~fault
    /\ tx_pc = "try"
    /\ \E accepted \in BOOLEAN :
          IF accepted
             THEN /\ \E sent \in ble_ppogatt_tx_reads(tx_pkt) : wire' = Append(wire, sent)
                  /\ tx_pc' = "recv"
             ELSE /\ wire' = wire
                  /\ tx_pc' = "wait"
    /\ lastlog' = "none"
    /\ UNCHANGED << handleVars, _queue_ppogatt_rx_buf, _queue_ppogatt_tx_buf,
                    _ppogatt_rx_msg, rxTaskVars, tx_pkt, tx_notify, cbVars, init_pc,
                    fault, upperVars, rx_seen, rx_calls >>

\* ulTaskNotifyTake(pdTRUE, pdMS_TO_TICKS(250)) returns the notification
\* value and clears it: rv != 0, nothing logged, try again
_ppogatt_tx_main_notified ==
    /\ ~fault
    /\ tx_pc = "wait"
    /\ tx_notify > 0
    /\ tx_notify' = 0
    /\ tx_pc' = "try"
    /\ lastlog' = "none"
    /\ UNCHANGED << handleVars, _queue_ppogatt_rx_buf, _queue_ppogatt_tx_buf,
                    _ppogatt_rx_msg, rxTaskVars, tx_pkt, cbVars, init_pc, fault,
                    wire, upperVars, rx_seen, rx_calls >>

\* ulTaskNotifyTake times out after 250 ms with no notification: rv == 0,
\* the warning is logged, try again
_ppogatt_tx_main_timeout ==
    /\ ~fault
    /\ tx_pc = "wait"
    /\ tx_notify = 0
    /\ tx_pc' = "try"
    /\ lastlog' = "tx_warn"
    /\ UNCHANGED << handleVars, _queue_ppogatt_rx_buf, _queue_ppogatt_tx_buf,
                    _ppogatt_rx_msg, rxTaskVars, tx_pkt, tx_notify, cbVars, init_pc,
                    fault, wire, upperVars, rx_seen, rx_calls >>

(* ------------------------------------------------------------------ *)
(* Upper layer entry: bt_device_request_tx                             *)
(* ------------------------------------------------------------------ *)
\* void bt_device_request_tx(uint8_t *data, uint16_t len) { }: the body is
\* empty; only the record of the call changes
bt_device_request_tx ==
    /\ ~fault
    /\ Len(submitted) < MaxSubmit
    /\ \E data \in SubmitPayloads : submitted' = Append(submitted, data)
    /\ lastlog' = "none"
    /\ UNCHANGED << handleVars, _queue_ppogatt_rx_buf, _queue_ppogatt_tx_buf,
                    _ppogatt_rx_msg, rxTaskVars, txTaskVars, cbVars, init_pc, fault,
                    wire, delivered, rx_seen, rx_calls >>

(* ------------------------------------------------------------------ *)
(* ppogatt_init, statement group by statement group                    *)
(* ------------------------------------------------------------------ *)
\* entered at boot, and whenever a PPoGATT connection is reset:
\* if (_task_ppogatt_rx) { vTaskDelete(_task_ppogatt_rx); _task_ppogatt_rx = 0; }
ppogatt_init_del_rx_task ==
    /\ ~fault
    /\ init_pc = "idle"
    /\ IF _task_ppogatt_rx # 0
          THEN /\ rx_pc' = "none"
               /\ rx_pkt' = NoPacket
               /\ _task_ppogatt_rx' = 0
          ELSE UNCHANGED << rx_pc, rx_pkt, _task_ppogatt_rx >>
    /\ init_pc' = "del_tx_task"
    /\ lastlog' = "none"
    /\ UNCHANGED << _task_ppogatt_tx, _queue_ppogatt_rx, _queue_ppogatt_tx,
                    _queue_ppogatt_rx_buf, _queue_ppogatt_tx_buf, _ppogatt_rx_msg,
                    txTaskVars, cbVars, fault, wire, upperVars, rx_seen, rx_calls >>

\* if (_task_ppogatt_tx) { vTaskDelete(_task_ppogatt_tx); _task_ppogatt_rx = 0; }
\* the handle cleared is the receive task's: _task_ppogatt_tx keeps its value.
\* No task of the old connection is left: its records start afresh.
ppogatt_init_del_tx_task ==
    /\ ~fault
    /\ init_pc = "del_tx_task"
    /\ IF _task_ppogatt_tx # 0
          THEN /\ tx_pc' = "none"
               /\ tx_pkt' = NoPacket
               /\ tx_notify' = 0
               /\ _task_ppogatt_rx' = 0
          ELSE UNCHANGED << tx_pc, tx_pkt, tx_notify, _task_ppogatt_rx >>
    /\ init_pc' = "del_rx_queue"
    /\ lastlog' = "none"
    /\ wire' = << >>
    /\ rx_seen' = << >>
    /\ rx_calls' = 0
    /\ UNCHANGED << _task_ppogatt_tx, _queue_ppogatt_rx, _queue_ppogatt_tx,
                    _queue_ppogatt_rx_buf, _queue_ppogatt_tx_buf, _ppogatt_rx_msg,
                    rxTaskVars, cbVars, fault, upperVars >>

\* if (_queue_ppogatt_rx) { oldq = ...; _queue_ppogatt_rx = 0; vQueueDelete(oldq); }
ppogatt_init_del_rx_queue ==
    /\ ~fault
    /\ init_pc = "del_rx_queue"
    /\ IF _queue_ppogatt_rx # 0
          THEN /\ _queue_ppogatt_rx' = 0
               /\ _queue_ppogatt_rx_buf' = << >>
          ELSE UNCHANGED << _queue_ppogatt_rx, _queue_ppogatt_rx_buf >>
    /\ init_pc' = "del_tx_queue"
    /\ lastlog' = "none"
    /\ UNCHANGED << _task_ppogatt_rx, _task_ppogatt_tx, _queue_ppogatt_tx,
                    _queue_ppogatt_tx_buf, _ppogatt_rx_msg, rxTaskVars, txTaskVars,
                    cbVars, fault, wire, upperVars, rx_seen, rx_calls >>

\* if (_queue_ppogatt_tx) { oldq = ...; _queue_ppogatt_tx = 0; vQueueDelete(oldq); }
ppogatt_init_del_tx_queue ==
    /\ ~fault
    /\ init_pc = "del_tx_queue"
    /\ IF _queue_ppogatt_tx # 0
          THEN /\ _queue_ppogatt_tx' = 0
               /\ _queue_ppogatt_tx_buf' = << >>
          ELSE UNCHANGED << _queue_ppogatt_tx, _queue_ppogatt_tx_buf >>
    /\ init_pc' = "new_queues"
    /\ lastlog' = "none"
    /\ UNCHANGED << _task_ppogatt_rx, _task_ppogatt_tx, _queue_ppogatt_rx,
                    _queue_ppogatt_rx_buf, _ppogatt_rx_msg, rxTaskVars, txTaskVars,
                    cbVars, fault, wire, upperVars, rx_seen, rx_calls >>

\* _queue_ppogatt_rx = xQueueCreateStatic(...); _queue_ppogatt_tx = xQueueCreateStatic(...)
ppogatt_init_new_queues ==
    /\ ~fault
    /\ init_pc = "new_queues"
    /\ _queue_ppogatt_rx' = 1
    /\ _queue_ppogatt_rx_buf' = << >>
    /\ _queue_ppogatt_tx' = 1
    /\ _queue_ppogatt_tx_buf' = << >>
    /\ init_pc' = "new_rx_task"
    /\ lastlog' = "none"
    /\ UNCHANGED << _task_ppogatt_rx, _task_ppogatt_tx, _ppogatt_rx_msg, rxTaskVars,
                    txTaskVars, cbVars, fault, wire, upperVars, rx_seen, rx_calls >>

\* _task_ppogatt_rx = xTaskCreateStatic(_ppogatt_rx_main, ...)
ppogatt_init_new_rx_task ==
    /\ ~fault
    /\ init_pc = "new_rx_task"
    /\ _task_ppogatt_rx' = 1
    /\ rx_pc' = "recv"
    /\ rx_pkt' = NoPacket
    /\ init_pc' = "new_tx_task"
    /\ lastlog' = "none"
    /\ UNCHANGED << _task_ppogatt_tx, _queue_ppogatt_rx, _queue_ppogatt_tx,
                    _queue_ppogatt_rx_buf, _queue_ppogatt_tx_buf, _ppogatt_rx_msg,
                    txTaskVars, cbVars, fault, wire, upperVars, rx_seen, rx_calls >>

\* _task_ppogatt_tx = xTaskCreateStatic(_ppogatt_tx_main, ...)
ppogatt_init_new_tx_task ==
    /\ ~fault
    /\ init_pc = "new_tx_task"
    /\ _task_ppogatt_tx' = 1
    /\ tx_pc' = "recv"
    /\ tx_pkt' = NoPacket
    /\ tx_notify' = 0
    /\ init_pc' = "set_callbacks"
    /\ lastlog' = "none"
    /\ UNCHANGED << _task_ppogatt_rx, _queue_ppogatt_rx, _queue_ppogatt_tx,
                    _queue_ppogatt_rx_buf, _queue_ppogatt_tx_buf, _ppogatt_rx_msg,
                    rxTaskVars, cbVars, fault, wire, upperVars, rx_seen, rx_calls >>

\* ble_ppogatt_set_callback_rx(...); ble_ppogatt_set_callback_txready(...); return
ppogatt_init_set_callbacks ==
    /\ ~fault
    /\ init_pc = "set_callbacks"
    /\ cb_rx' = TRUE
    /\ cb_txready' = TRUE
    /\ init_pc' = "idle"
    /\ lastlog' = "none"
    /\ UNCHANGED << handleVars, _queue_ppogatt_rx_buf, _queue_ppogatt_tx_buf,
                    _ppogatt_rx_msg, rxTaskVars, txTaskVars, fault, wire, upperVars,
                    rx_seen, rx_calls >>

Next ==
    \/ _ppogatt_callback_rx
    \/ _ppogatt_callback_txready
    \/ _ppogatt_rx_main_recv
    \/ _ppogatt_rx_main_send
    \/ _ppogatt_tx_main_recv
    \/ _ppogatt_tx_main_try
    \/ _ppogatt_tx_main_notified
    \/ _ppogatt_tx_main_timeout
    \/ bt_device_request_tx
    \/ ppogatt_init_del_rx_task
    \/ ppogatt_init_del_tx_task
    \/ ppogatt_init_del_rx_queue
    \/ ppogatt_init_del_tx_queue
    \/ ppogatt_init_new_queues
    \/ ppogatt_init_new_rx_task
    \/ ppogatt_init_new_tx_task
    \/ ppogatt_init_set_callbacks

Spec == Init /\ [][Next]_vars

\* the same program with the BLE stack reporting frames of any length
PeerNext ==
    \/ _ppogatt_callback_rx_any
    \/ _ppogatt_callback_txready
    \/ _ppogatt_rx_main_recv
    \/ _ppogatt_rx_main_send
    \/ _ppogatt_tx_main_recv
    \/ _ppogatt_tx_main_try
    \/ _ppogatt_tx_main_notified
    \/ _ppogatt_tx_main_timeout
    \/ bt_device_request_tx
    \/ ppogatt_init_del_rx_task
    \/ ppogatt_init_del_tx_task
    \/ ppogatt_init_del_rx_queue
    \/ ppogatt_init_del_tx_queue
    \/ ppogatt_init_new_queues
    \/ ppogatt_init_new_rx_task
    \/ ppogatt_init_new_tx_task
    \/ ppogatt_init_set_callbacks

PeerSpec == Init /\ [][PeerNext]_vars

\* the transport takes the frame the transmit task offers
TxAccepted == _ppogatt_tx_main_try /\ tx_pc' = "recv"

\* The scheduler runs the transmit task when it is ready (priority
\* tskIDLE_PRIORITY + 4): a wait of 250 ms ends, by a notification or by the
\* timeout, and a transport that is offered a frame again and again takes
\* it in the end.
Fairness ==
    /\ WF_vars(_ppogatt_tx_main_notified)
    /\ WF_vars(_ppogatt_tx_main_timeout)
    /\ SF_vars(TxAccepted)

FairSpec == Spec /\ Fairness

(* ------------------------------------------------------------------ *)
(* Vocabulary of the properties                                        *)
(* ------------------------------------------------------------------ *)
IsPrefix(s, t) == Len(s) <= Len(t) /\ SubSeq(t, 1, Len(s)) = s
Front(s) == SubSeq(s, 1, Len(s) - 1)
Last(s) == s[Len(s)]

\* how far sequence number a lies after b, mod 32
SeqDist(a, b) == (a + SeqSpace - b) % SeqSpace

\* the sequence number the protocol expects next after the frames h:
\* 0 after a reset request, one more after each DATA frame that was in order
RECURSIVE RxExpectedAfter(_)
RxExpectedAfter(h) ==
    IF h = << >> THEN 0
    ELSE LET e == RxExpectedAfter(Front(h))
             f == Last(h)
         IN  IF f = << >> THEN e
             ELSE IF CmdOf(f) = PPOGATT_CMD_RESET_REQ THEN 0
             ELSE IF CmdOf(f) = PPOGATT_CMD_DATA /\ SeqOf(f) = e THEN (e + 1) % SeqSpace
             ELSE e

\* the receive task has just finished with the frame it dequeued
RxDone == rx_pc = "send" /\ rx_pc' = "recv"

\* both tasks wait in xQueueReceive on empty queues and ppogatt_init is not running
Quiescent ==
    /\ ~fault
    /\ init_pc = "idle"
    /\ rx_pc = "recv" /\ _queue_ppogatt_rx_buf = << >>
    /\ tx_pc = "recv" /\ _queue_ppogatt_tx_buf = << >>

\* the transmit side still holds frame f: queued, or in the task's hands
TxHolds(f) ==
    \/ \E j \in 1..Len(_queue_ppogatt_tx_buf) : _queue_ppogatt_tx_buf[j].buf = f
    \/ tx_pc \in {"try", "wait"} /\ tx_pkt.buf = f

\* an ACK covering sequence k has been received
AckSeen(k) ==
    \E j \in 1..Len(rx_seen) :
        /\ CmdOf(rx_seen[j]) = PPOGATT_CMD_ACK
        /\ SeqDist(SeqOf(rx_seen[j]), k) < SeqSpace \div 2

\* the positions of the DATA entries of a queue
DataAt(q) == { j \in 1..Len(q) : CmdOf(q[j].buf) = PPOGATT_CMD_DATA }

(* ------------------------------------------------------------------ *)
(* C1..C10                                                              *)
(* ------------------------------------------------------------------ *)

\* C1: every submitted payload is delivered upward exactly once and in
\* submission order: what was delivered is a prefix of what was submitted,
\* and once the system has come to rest everything submitted was delivered.
C1_DeliveredOnceInOrder ==
    /\ IsPrefix(delivered, submitted)
    /\ Quiescent => delivered = submitted

\* C2: a DATA frame whose sequence is not the expected one is discarded by
\* the receiver: when the receive task is done with it, nothing (no
\* acknowledgement, no other frame) has been handed to the transmit side.
C2_GapDataDiscarded ==
    [][ ( /\ RxDone
          /\ CmdOf(rx_pkt.buf) = PPOGATT_CMD_DATA
          /\ SeqOf(rx_pkt.buf) # RxExpectedAfter(Front(rx_seen)) )
        => _queue_ppogatt_tx_buf' = _queue_ppogatt_tx_buf ]_vars

\* C3: a DATA frame that was transmitted and is not covered by a received
\* acknowledgement is still held by the transmit side, with its sequence
\* number and payload, so that it can be sent again when its deadline passes.
C3_UnackedStaysOutstanding ==
    \A i \in 1..Len(wire) :
        (CmdOf(wire[i]) = PPOGATT_CMD_DATA /\ ~AckSeen(SeqOf(wire[i])))
            => TxHolds(wire[i])

\* C4: processing ACK(k) removes, in that one step, every outstanding DATA
\* entry whose sequence lies in [oldest outstanding, k] mod 32, and keeps
\* every entry after k.
C4_AckClearsCumulatively ==
    [][ (RxDone /\ CmdOf(rx_pkt.buf) = PPOGATT_CMD_ACK /\ DataAt(_queue_ppogatt_tx_buf) # {})
        => LET q == _queue_ppogatt_tx_buf
               k == SeqOf(rx_pkt.buf)
               first == CHOOSE j \in DataAt(q) : \A m \in DataAt(q) : j <= m
               oldest == SeqOf(q[first].buf)
               Covered(p) == SeqDist(SeqOf(p.buf), oldest) <= SeqDist(k, oldest)
           IN  /\ \A j \in DataAt(_queue_ppogatt_tx_buf') :
                     ~Covered(_queue_ppogatt_tx_buf'[j])
               /\ \A j \in DataAt(q) :
                     ~Covered(q[j]) =>
                        \E m \in DataAt(_queue_ppogatt_tx_buf') :
                            _queue_ppogatt_tx_buf'[m] = q[j] ]_vars

C6_SubmitStoresEntry ==
    [][ (submitted' # submitted /\ _queue_ppogatt_tx # 0 /\ init_pc = "idle")
        => IF Len(_queue_ppogatt_tx_buf) = PPOGATT_TX_QUEUE_SIZE
              THEN _queue_ppogatt_tx_buf' = _queue_ppogatt_tx_buf
              ELSE /\ Len(_queue_ppogatt_tx_buf') = Len(_queue_ppogatt_tx_buf) + 1
                   /\ CmdOf(Last(_queue_ppogatt_tx_buf').buf) = PPOGATT_CMD_DATA
                   /\ Tail(Last(_queue_ppogatt_tx_buf').buf) = Last(submitted') ]_vars

\* C7: a RESET_REQ handled while entries are outstanding discards the
\* outstanding window and sends a RESET_ACK: the only thing left for the
\* transmit side is that RESET_ACK.
C7_ResetDiscardsWindow ==
    [][ ( /\ RxDone
          /\ CmdOf(rx_pkt.buf) = PPOGATT_CMD_RESET_REQ
          /\ _queue_ppogatt_tx_buf # << >> )
        => /\ Len(_queue_ppogatt_tx_buf') = 1
           /\ CmdOf(_queue_ppogatt_tx_buf'[1].buf) = PPOGATT_CMD_RESET_ACK ]_vars

\* C8: a RESET_REQ handled when the expected sequence is already 0 is still
\* answered: the frame it adds for the transmit side is a RESET_ACK, and the
\* expected sequence stays 0.
C8_ResetIdempotent ==
    [][ ( /\ RxDone
          /\ CmdOf(rx_pkt.buf) = PPOGATT_CMD_RESET_REQ
          /\ RxExpectedAfter(Front(rx_seen)) = 0 )
        => /\ RxExpectedAfter(rx_seen) = 0
           /\ Len(_queue_ppogatt_tx_buf') = Len(_queue_ppogatt_tx_buf) + 1
           /\ CmdOf(Last(_queue_ppogatt_tx_buf').buf) = PPOGATT_CMD_RESET_ACK ]_vars

\* a call of _ppogatt_callback_rx on a live queue
RxCallbackStep == rx_calls' = rx_calls + 1 /\ _queue_ppogatt_rx # 0

\* C9 as stated: the callback on a full inbox leaves the queue unchanged,
\* returns, and logs the drop.
C9_OverflowDroppedAndLogged ==
    [][ (RxCallbackStep /\ Len(_queue_ppogatt_rx_buf) = PPOGATT_RX_QUEUE_SIZE)
        => /\ _queue_ppogatt_rx_buf' = _queue_ppogatt_rx_buf
           /\ lastlog' # "none" ]_vars

\* C9 as amended: the callback is one step that never waits: with room it
\* appends the staged packet to the inbox, on a full inbox it leaves the
\* queue unchanged; either way it logs nothing, moves neither task nor
\* ppogatt_init, and returns.
C9_OverflowDroppedSilently ==
    [][ RxCallbackStep
        => /\ IF Len(_queue_ppogatt_rx_buf) < PPOGATT_RX_QUEUE_SIZE
                 THEN _queue_ppogatt_rx_buf' =
                          Append(_queue_ppogatt_rx_buf, _ppogatt_rx_msg')
                 ELSE _queue_ppogatt_rx_buf' = _queue_ppogatt_rx_buf
           /\ lastlog' = "none"
           /\ ~fault'
           /\ UNCHANGED << rx_pc, tx_pc, init_pc, _queue_ppogatt_tx_buf >> ]_vars

\* C9 witness: the inbox is full and more frames were offered than it holds
\* and the receive task took: a frame was dropped.
C9_Witness_Dropped ==
    /\ _queue_ppogatt_rx # 0
    /\ Len(_queue_ppogatt_rx_buf) = PPOGATT_RX_QUEUE_SIZE
    /\ rx_calls > PPOGATT_RX_QUEUE_SIZE + Len(rx_seen)
    /\ init_pc = "idle"

TxRetryStep ==
    /\ tx_pc \in {"try", "wait"}
       => \/ /\ tx_pc' \in {"try", "wait"}
             /\ tx_pkt' = tx_pkt
             /\ wire' = wire
             /\ IsPrefix(_queue_ppogatt_tx_buf, _queue_ppogatt_tx_buf')
          \/ /\ tx_pc = "try" /\ tx_pc' = "recv"
             /\ wire' = Append(wire, tx_pkt.buf)
             /\ _queue_ppogatt_tx_buf' = _queue_ppogatt_tx_buf
          \/ /\ tx_pc' = "none"
             /\ init_pc = "del_tx_task"
    /\ (tx_pc = "wait" /\ tx_pc' = "try")
       => \/ tx_notify > 0 /\ tx_notify' = 0 /\ lastlog' = "none"
          \/ tx_notify = 0 /\ lastlog' = "tx_warn"
    /\ wire' # wire
       => \/ tx_pc = "try" /\ wire' = Append(wire, tx_pkt.buf)
          \/ init_pc = "del_tx_task" /\ wire' = << >>

TxSent == Len(wire') = Len(wire) + 1

\* the positions of the ACK entries of a queue
AckAt(q) == { j \in 1..Len(q) : CmdOf(q[j].buf) = PPOGATT_CMD_ACK }

\* C11: the transmit side sends in strict priority, a pending
\* acknowledgement first: a DATA frame is never handed to the transport
\* while an acknowledgement is waiting to be sent.
C11_AckBeforeData ==
    [][ (TxSent /\ CmdOf(Last(wire')) = PPOGATT_CMD_DATA)
        => AckAt(_queue_ppogatt_tx_buf) = {} ]_vars

\* C12: a DATA frame whose sequence is the one accepted last (one before
\* the expected sequence, a DATA frame having been accepted) is not
\* delivered again, and what the receive task hands to the transmit side
\* for it is an acknowledgement of that sequence.
C12_DuplicateReAcked ==
    [][ ( /\ RxDone
          /\ rx_pkt.buf # << >>
          /\ CmdOf(rx_pkt.buf) = PPOGATT_CMD_DATA
          /\ RxExpectedAfter(Front(rx_seen)) # 0
          /\ SeqDist(RxExpectedAfter(Front(rx_seen)), SeqOf(rx_pkt.buf)) = 1 )
        => /\ delivered' = delivered
           /\ RxExpectedAfter(rx_seen) = RxExpectedAfter(Front(rx_seen))
           /\ Len(_queue_ppogatt_tx_buf') = Len(_queue_ppogatt_tx_buf) + 1
           /\ CmdOf(Last(_queue_ppogatt_tx_buf').buf) = PPOGATT_CMD_ACK
           /\ SeqOf(Last(_queue_ppogatt_tx_buf').buf) = SeqOf(rx_pkt.buf) ]_vars

\* C13: sequence numbers stay in 0..31, and the outstanding DATA entries
\* of the transmit side carry pairwise distinct sequence numbers that form
\* one contiguous run mod 32, oldest first.
C13_WindowSeqsDistinct ==
    LET q == _queue_ppogatt_tx_buf
    IN  \A i \in DataAt(q) :
            /\ SeqOf(q[i].buf) \in 0..(SeqSpace - 1)
            /\ \A j \in DataAt(q) :
                   i < j => SeqDist(SeqOf(q[j].buf), SeqOf(q[i].buf))
                               = Cardinality({ m \in DataAt(q) : i < m /\ m <= j })

\* C14: the receive task suspends only in xQueueReceive on its own inbox:
\* it is never kept waiting while handing a packet to the transmit side.
C14_RxNeverWaitsOnTx ==
    rx_pc = "send" =>
        xQueueSendToBack_ready(_queue_ppogatt_tx_buf, PPOGATT_TX_QUEUE_SIZE)

\* the byte strings of the packets of a queue, oldest first
PktBufs(q) == [j \in 1..Len(q) |-> q[j].buf]

\* what has passed the receive task and where it is now, oldest first: on
\* the wire, in the transmit task's hands, in the transmit queue, in the
\* receive task's hands
PassedRx ==
    wire
    \o (IF tx_pc \in {"try", "wait"} THEN <<tx_pkt.buf>> ELSE << >>)
    \o PktBufs(_queue_ppogatt_tx_buf)
    \o (IF rx_pc = "send" THEN <<rx_pkt.buf>> ELSE << >>)

\* the frames are where arrival order puts them
C15_Chain ==
    /\ rx_pc # "none" => PassedRx = rx_seen
    /\ init_pc \notin {"del_rx_queue", "del_tx_queue"} => IsPrefix(PassedRx, rx_seen)

\* the inbox takes at its back and gives from its front
C15_InboxStep ==
    /\ (RxCallbackStep /\ _queue_ppogatt_rx_buf' # _queue_ppogatt_rx_buf)
       => _queue_ppogatt_rx_buf' = Append(_queue_ppogatt_rx_buf, _ppogatt_rx_msg')
    /\ Len(rx_seen') = Len(rx_seen) + 1
       => /\ rx_seen' = Append(rx_seen, Head(_queue_ppogatt_rx_buf).buf)
          /\ _queue_ppogatt_rx_buf' = Tail(_queue_ppogatt_rx_buf)

C16_DecodeRoundTripOrReject ==
    [][ /\ \A c \in PPOGATT_CMD_DATA..PPOGATT_CMD_RESET_ACK : \A q \in 0..(SeqSpace - 1) :
              /\ Hdr(c, q) \in 0..255
              /\ Hdr(c, q) \div CmdSpace = q
              /\ CmdOf(<<Hdr(c, q)>>) = c
              /\ SeqOf(<<Hdr(c, q)>>) = q
        /\ ( /\ RxDone
             /\ \/ rx_pkt.len = 0
                \/ rx_pkt.len > 1 /\ CmdOf(rx_pkt.buf) # PPOGATT_CMD_DATA )
           => /\ _queue_ppogatt_tx_buf' = _queue_ppogatt_tx_buf
              /\ delivered' = delivered ]_vars

\* C17: in ppogatt_init both tasks are gone and both task handles are 0
\* before either queue is deleted and until the tasks are created again;
\* a task only ever runs with both queues in place; and a handle that is
\* not 0 is the handle of a task that exists.
C17_TasksClearedBeforeQueues ==
    /\ init_pc \in {"del_rx_queue", "del_tx_queue", "new_queues"}
          => /\ rx_pc = "none" /\ tx_pc = "none"
             /\ _task_ppogatt_rx = 0 /\ _task_ppogatt_tx = 0
    /\ (rx_pc # "none" \/ tx_pc # "none")
          => (_queue_ppogatt_rx # 0 /\ _queue_ppogatt_tx # 0)
    /\ _task_ppogatt_rx # 0 => rx_pc # "none"
    /\ _task_ppogatt_tx # 0 => tx_pc # "none"

\* ppogatt_init returns
InitReturns == init_pc = "set_callbacks" /\ init_pc' = "idle"

\* C18: when ppogatt_init returns both queues are empty and both tasks are
\* at the start of their loops, in xQueueReceive, and nothing is on its way
\* to the transport.
C18_ResetLeavesNothing ==
    [][ InitReturns
        => /\ _queue_ppogatt_rx_buf' = << >>
           /\ _queue_ppogatt_tx_buf' = << >>
           /\ rx_pc' = "recv"
           /\ tx_pc' = "recv"
           /\ wire' = << >> ]_vars

\* every packet the program holds
HeldPackets ==
    {_ppogatt_rx_msg, rx_pkt, tx_pkt}
    \cup { _queue_ppogatt_rx_buf[j] : j \in 1..Len(_queue_ppogatt_rx_buf) }
    \cup { _queue_ppogatt_tx_buf[j] : j \in 1..Len(_queue_ppogatt_tx_buf) }

\* C19: whatever length the BLE stack reports, at most PPOGATT_MTU bytes are
\* copied into the staging packet: the len of every packet, staged, queued
\* or in a task's hands, is at most PPOGATT_MTU and is the number of bytes
\* its buffer holds.
C19_CopyWithinBuffer ==
    \A pkt \in HeldPackets : pkt.len <= PPOGATT_MTU /\ pkt.len = Len(pkt.buf)

\* C20: whenever an interrupt callback is registered, the handle it uses
\* is the handle of a queue, or of a task, that exists, ppogatt_init running
\* or not; no callback has used a null or deleted handle.
C20_CallbacksFindLiveHandles ==
    /\ ~fault
    /\ cb_rx => _queue_ppogatt_rx # 0
    /\ cb_txready => (_task_ppogatt_tx # 0 /\ tx_pc # "none")

====
